---- MODULE Spec2Model ----
(***************************************************************************)
(* Model of streamlit_code.py: the image normaliser (compress_image and    *)
(* its helpers), the payload validator (validate_input) and the job        *)
(* orchestrator (trigger_analysis / poll_execution_status), driven by the  *)
(* upload / analyse steps of main.                                         *)
(*                                                                         *)
(* External libraries are inputs of the model: the PNG encoder's output    *)
(* sizes, the POST response and each describe_execution response are       *)
(* chosen nondeterministically from small sets of boundary cases.          *)
(***************************************************************************)
EXTENDS Integers, Sequences, FiniteSets, TLC

VARIABLES
    pc,           \* position of the single request thread
    file,         \* the uploaded file (uploaded_file)
    compressed,   \* compress_image's return value (compressed_file)
    trace,        \* image operations compress_image performed, in order
    viaMain,      \* TRUE when trigger_analysis was called from main
    payload,      \* the image_base64 argument of trigger_analysis
    postResp,     \* the answer to the HTTP POST
    execution_arn,\* the job handle taken from the POST response
    attempt,      \* completed iterations of the polling loop
    allRunning,   \* every status seen so far by this poll was RUNNING
    lastResp,     \* the describe_execution response that ended the poll
    seen,         \* what the latest describe_execution call answered
    pollResult,   \* poll_execution_status's return value
    result,       \* trigger_analysis's return value
    nPost,        \* HTTP POSTs issued for this request
    nQueries,     \* describe_execution calls issued for this request
    nDelays,      \* time.sleep calls made for this request
    stLog,        \* st.error / st.warning messages of this request
    reqs,         \* two interleaved calls of trigger_analysis: the locals of each
    jobs          \* the remote executions, by job handle

seq_vars == <<pc, file, compressed, trace, viaMain, payload, postResp, execution_arn,
          attempt, allRunning, lastResp, seen, pollResult, result,
          nPost, nQueries, nDelays, stLog>>

conc_vars == <<reqs, jobs>>

vars == <<seq_vars, conc_vars>>

----------------------------------------------------------------------------
(* Program constants *)

\* the encoded-image ceiling tested by compress_image and aggressive_compress
SizeBudget == 250000

\* the base64 ceiling tested by validate_input and by main
WireCeiling == 262000

\* a polling loop that runs one iteration too many
max_attempts_one_more == 30 + 1

\* poll_execution_status(execution_arn, max_attempts=30, delay=2)
max_attempts == 30

\* MAX_SIZE = (500, 500)
MAX_SIZE == 500

\* the caps tried from the smallest up
Caps_ascending == <<200, 300, 400>>

\* the caps aggressive_compress iterates over, in its order
Caps == <<400, 300, 200>>

\* Python's None and the empty dict, as tokens
None == "None"

EmptyDoc == "{}"

EmptyMap == [k \in {} |-> EmptyDoc]

Truthy(s) == s \notin {None, ""}

dict_get(d, k, default) == IF k \in DOMAIN d THEN d[k] ELSE default

Msg(text, num) == [text |-> text, num |-> num]

----------------------------------------------------------------------------
(* Inputs *)

\* byte lengths of uploaded files, around the two ceilings
OrigSizes == {196500, 250000, 250001}

\* byte lengths the PNG encoder may produce (196500 bytes is the largest
\* buffer whose base64 text is within WireCeiling)
EncSizes == {196500, 196501, 250000, 250001}

Formats == {"PNG", "JPEG"}

Modes == {"RGB", "RGBA", "L"}

\* an undecodable upload has no format or mode
Files ==
    [decodable : {TRUE}, format : Formats, mode : Modes,
     size : OrigSizes, bbox : BOOLEAN]
    \cup [decodable : {FALSE}, format : {None}, mode : {None},
          size : OrigSizes, bbox : {FALSE}]

NoFile == [decodable |-> FALSE, format |-> None, mode |-> None,
           size |-> 0, bbox |-> FALSE]

\* what the encoder returns for the image at each stage
Encodings == [s500 : EncSizes, caps : [1..Len(Caps) -> EncSizes], gray : EncSizes]

----------------------------------------------------------------------------
(* Image normaliser *)

NoBuffer == [some |-> FALSE, format |-> None, size |-> 0, src |-> None]

Buffer(format, size, src) ==
    [some |-> TRUE, format |-> format, size |-> size, src |-> src]

Op(op, cap, size) == [op |-> op, cap |-> cap, size |-> size]

\* aggressive_compress from the i-th cap on: thumbnail a copy to the cap,
\* save it as PNG, return the first buffer within the budget, else None
RECURSIVE aggressive_from(_, _)
aggressive_from(i, enc) ==
    IF i > Len(Caps)
    THEN [buf |-> NoBuffer, trace |-> <<>>]
    ELSE LET tried == <<Op("thumbnail", Caps[i], 0),
                        Op("save_png", Caps[i], enc.caps[i])>>
         IN IF enc.caps[i] <= SizeBudget
            THEN [buf |-> Buffer("PNG", enc.caps[i], "aggressive"),
                  trace |-> tried]
            ELSE LET rest == aggressive_from(i + 1, enc)
                 IN [buf |-> rest.buf, trace |-> tried \o rest.trace]

aggressive_compress(enc) == aggressive_from(1, enc)

\* a fast path that does not look at the format
fast_path_any_format(f) == f.size <= SizeBudget

\* the fast-path test of compress_image
fast_path(f) == f.size <= SizeBudget /\ f.format = "PNG"

\* auto_crop: crop to the bounding box when there is one
auto_crop(f) ==
    <<Op("getbbox", 0, 0)>> \o (IF f.bbox THEN <<Op("crop", 0, 0)>> ELSE <<>>)

\* a last stage that gives None when the grayscale encoding is over the budget
grayscale_stage_none_when_over(enc) ==
    [buf |-> IF enc.gray <= SizeBudget
             THEN Buffer("PNG", enc.gray, "grayscale") ELSE NoBuffer,
     trace |-> <<Op("convert_L", 0, 0), Op("save_png", 0, enc.gray)>>]

\* the last stage of compress_image: what is returned once the resize-to-500
\* encoding is over the budget and aggressive_compress returned None
grayscale_stage(enc) ==
    [buf |-> Buffer("PNG", enc.gray, "grayscale"),
     trace |-> <<Op("convert_L", 0, 0), Op("save_png", 0, enc.gray)>>]

\* compress_image(uploaded_file): the returned buffer (NoBuffer for None),
\* the image operations performed and the messages shown
compress_image(f, enc) ==
    IF ~f.decodable
    THEN [buf |-> NoBuffer, trace |-> <<Op("open_failed", 0, f.size)>>,
          log |-> <<Msg("Error compressing image", 0)>>]
    ELSE IF fast_path(f)
    THEN [buf |-> Buffer(f.format, f.size, "original"),
          trace |-> <<Op("open", 0, f.size)>>, log |-> <<>>]
    ELSE LET pre == <<Op("open", 0, f.size)>>
                    \o (IF f.mode \notin {"RGBA", "RGB"}
                        THEN <<Op("convert_RGB", 0, 0)>> ELSE <<>>)
                    \o auto_crop(f)
                    \o <<Op("thumbnail", MAX_SIZE, 0),
                         Op("save_png", MAX_SIZE, enc.s500)>>
         IN IF enc.s500 > SizeBudget
            THEN LET agg == aggressive_compress(enc)
                     warn == <<Msg("Image is large, attempting further compression...", 0)>>
                 IN IF agg.buf.some
                    THEN [buf |-> agg.buf, trace |-> pre \o agg.trace, log |-> warn]
                    ELSE LET g == grayscale_stage(enc)
                         IN [buf |-> g.buf,
                             trace |-> pre \o agg.trace \o g.trace,
                             log |-> warn]
            ELSE [buf |-> Buffer("PNG", enc.s500, "resize500"),
                  trace |-> pre, log |-> <<>>]

----------------------------------------------------------------------------
(* JSON texts and json.loads *)

Keys == {"visual_analysis", "activity_pattern", "productivity_assessment"}

OutFull ==
    "{\"visual_analysis\":{\"v\":1},\"activity_pattern\":{\"a\":1},\"productivity_assessment\":{\"p\":1}}"

OutVisualOnly == "{\"visual_analysis\":{\"v\":1}}"

OutExtra == "{\"activity_pattern\":{\"a\":1},\"other\":{\"o\":1}}"

BodyArn == "{\"executionArn\":\"arn:exec-1\"}"

BodyArn2 == "{\"executionArn\":\"arn:exec-2\"}"

BodyEmptyArn == "{\"executionArn\":\"\"}"

Parsed(type, items) == [ok |-> TRUE, type |-> type, items |-> items]

DecodeError == [ok |-> FALSE, type |-> None, items |-> EmptyMap]

\* json.loads / response.json(): the value a text parses to, or a decode
\* error.  A nested mapping is kept as its text.
json_loads(s) ==
    CASE s = "{}" -> Parsed("dict", EmptyMap)
      [] s = OutFull ->
            Parsed("dict", ("visual_analysis" :> "{\"v\":1}")
                           @@ ("activity_pattern" :> "{\"a\":1}")
                           @@ ("productivity_assessment" :> "{\"p\":1}"))
      [] s = OutVisualOnly -> Parsed("dict", ("visual_analysis" :> "{\"v\":1}"))
      [] s = OutExtra ->
            Parsed("dict", ("activity_pattern" :> "{\"a\":1}")
                           @@ ("other" :> "{\"o\":1}"))
      [] s = BodyArn -> Parsed("dict", ("executionArn" :> "arn:exec-1"))
      [] s = BodyArn2 -> Parsed("dict", ("executionArn" :> "arn:exec-2"))
      [] s = BodyEmptyArn -> Parsed("dict", ("executionArn" :> ""))
      [] s = "[]" -> Parsed("list", EmptyMap)
      [] s = "null" -> Parsed("NoneType", EmptyMap)
      [] OTHER -> DecodeError

\* the 'output' strings a finished execution may carry
OutputTexts ==
    {"{}", OutFull, OutVisualOnly, OutExtra, "[]", "null", "{not json", ""}

\* the bodies the submission endpoint may answer with
BodyTexts == {BodyArn, BodyEmptyArn, "{}", "[]", "<html>"}

\* requests.post: it raises, or answers with a status code and a body
PostResponses ==
    [exc : {"ConnectionError"}, status_code : {0}, body : {""}]
    \cup [exc : {None}, status_code : {200}, body : BodyTexts]
    \cup [exc : {None}, status_code : {500}, body : {BodyArn, "<html>"}]

\* describe_execution: it raises, or returns a dict with some of the fields
\* status, output and error
StatusResponses ==
    {[exc |-> "EndpointConnectionError", fields |-> EmptyMap],
     [exc |-> None, fields |-> EmptyMap]}
    \cup {[exc |-> None, fields |-> ("status" :> s)] :
            s \in {"RUNNING", "PENDING_REDRIVE", "SUCCEEDED",
                   "FAILED", "TIMED_OUT", "ABORTED"}}
    \cup {[exc |-> None, fields |-> ("status" :> "SUCCEEDED") @@ ("output" :> o)] :
            o \in OutputTexts}
    \cup {[exc |-> None, fields |-> ("status" :> s) @@ ("error" :> "States.TaskFailed")] :
            s \in {"FAILED", "TIMED_OUT", "ABORTED"}}

\* no response was recorded
NoResp == [exc |-> "no response", fields |-> EmptyMap]

NoPost == [exc |-> "no response", status_code |-> 0, body |-> ""]

----------------------------------------------------------------------------
(* Payload validator *)

\* get_image_base64: the length of base64.b64encode of n bytes
b64len(n) == 4 * ((n + 2) \div 3)

NoPayload == [present |-> FALSE, len |-> 0]

\* UTF-8 byte lengths (len(image_base64.encode('utf-8'))) of the strings
\* trigger_analysis is called with directly
PayloadLens == {0, 4, 262000, 262001, 333336}

Payloads == {NoPayload} \cup [present : {TRUE}, len : PayloadLens]

\* validate_input rejecting a payload exactly at the ceiling
validate_input_off_by_one(p) ==
    IF ~p.present \/ p.len = 0
    THEN [ok |-> FALSE, msg |-> Msg("No image data provided", 0)]
    ELSE IF p.len >= WireCeiling
    THEN [ok |-> FALSE, msg |-> Msg("Image too large", p.len)]
    ELSE [ok |-> TRUE, msg |-> Msg("", 0)]

\* validate_input without its size test
validate_input_no_size_test(p) ==
    IF ~p.present \/ p.len = 0
    THEN [ok |-> FALSE, msg |-> Msg("No image data provided", 0)]
    ELSE [ok |-> TRUE, msg |-> Msg("", 0)]

\* validate_input(image_base64): (is_valid, message)
validate_input(p) ==
    IF ~p.present \/ p.len = 0
    THEN [ok |-> FALSE, msg |-> Msg("No image data provided", 0)]
    ELSE IF p.len > WireCeiling
    THEN [ok |-> FALSE, msg |-> Msg("Image too large", p.len)]
    ELSE [ok |-> TRUE, msg |-> Msg("", 0)]

----------------------------------------------------------------------------
(* Job orchestrator: the pure parts *)

NoValue == [ok |-> FALSE, type |-> None, items |-> EmptyMap]

PollRet(status, output, error) ==
    [status |-> status, output |-> output, error |-> error]

NoPollRet == PollRet(None, NoValue, None)

\* a SUCCEEDED branch that reports success whether or not the output parses
on_succeeded_unchecked(fields) ==
    LET parsed == json_loads(dict_get(fields, "output", "{}"))
    IN [ret |-> PollRet("SUCCEEDED",
                        IF parsed.ok THEN parsed ELSE Parsed("dict", EmptyMap), None),
        log |-> <<>>]

\* the SUCCEEDED branch of poll_execution_status
on_succeeded(fields) ==
    LET parsed == json_loads(dict_get(fields, "output", "{}"))
    IN IF parsed.ok
       THEN [ret |-> PollRet("SUCCEEDED", parsed, None), log |-> <<>>]
       ELSE [ret |-> PollRet("ERROR", NoValue, "Invalid JSON output"),
             log |-> <<Msg("Error parsing Step Functions output", 0)>>]

\* a failure branch that folds the three remote failures into ERROR
on_failed_as_error(fields) ==
    [ret |-> PollRet("ERROR", NoValue, dict_get(fields, "error", "Unknown error")),
     log |-> <<Msg("Step Functions execution failed", 0)>>]

\* the FAILED / TIMED_OUT / ABORTED branch of poll_execution_status
on_failed(fields) ==
    [ret |-> PollRet(fields["status"], NoValue, dict_get(fields, "error", "Unknown error")),
     log |-> <<Msg("Step Functions execution failed", 0)>>]

\* an except branch that loses the exception's text
on_exception_no_text(text) ==
    [ret |-> PollRet("ERROR", NoValue, "Unknown error"),
     log |-> <<Msg("Error polling Step Functions", 0)>>]

\* the except branch of poll_execution_status
on_exception(text) ==
    [ret |-> PollRet("ERROR", NoValue, text),
     log |-> <<Msg("Error polling Step Functions", 0)>>]

\* an iteration that keeps polling after a FAILED, TIMED_OUT or ABORTED answer
poll_iteration_retries_failed(resp) ==
    IF resp.exc # None
    THEN [done |-> TRUE] @@ on_exception(resp.exc)
    ELSE IF "status" \notin DOMAIN resp.fields
    THEN [done |-> TRUE] @@ on_exception("'status'")
    ELSE IF resp.fields["status"] = "SUCCEEDED"
    THEN [done |-> TRUE] @@ on_succeeded(resp.fields)
    ELSE [done |-> FALSE, ret |-> NoPollRet, log |-> <<>>]

\* one iteration of the polling loop up to its return or its sleep:
\* done is FALSE when the iteration goes on to time.sleep
poll_iteration(resp) ==
    IF resp.exc # None
    THEN [done |-> TRUE] @@ on_exception(resp.exc)
    ELSE IF "status" \notin DOMAIN resp.fields
    THEN [done |-> TRUE] @@ on_exception("'status'")
    ELSE IF resp.fields["status"] = "SUCCEEDED"
    THEN [done |-> TRUE] @@ on_succeeded(resp.fields)
    ELSE IF resp.fields["status"] \in {"FAILED", "TIMED_OUT", "ABORTED"}
    THEN [done |-> TRUE] @@ on_failed(resp.fields)
    ELSE [done |-> FALSE, ret |-> NoPollRet, log |-> <<>>]

\* the return after the loop
poll_exhausted == PollRet("TIMEOUT", NoValue, "Maximum polling attempts reached")

NoneResult == [none |-> TRUE, map |-> EmptyMap]

\* trigger_analysis after poll_execution_status returned: the three
\* sub-documents on SUCCEEDED, None otherwise; output.get on a value that
\* is no dict raises AttributeError, which the except branch turns into None
extract_result(status) ==
    IF status.status = "SUCCEEDED"
    THEN IF status.output.type = "dict"
         THEN [res |-> [none |-> FALSE,
                        map |-> [k \in Keys |-> dict_get(status.output.items, k, EmptyDoc)]],
               log |-> <<>>]
         ELSE [res |-> NoneResult, log |-> <<Msg("Error in analysis", 0)>>]
    ELSE [res |-> NoneResult, log |-> <<Msg("Analysis failed", 0)>>]

\* a submission step that does not test the HTTP status code
submit_outcome_any_status(post) ==
    IF post.exc # None
    THEN [arn |-> None, log |-> <<Msg("Error in analysis", 0)>>]
    ELSE LET body == json_loads(post.body)
         IN IF ~body.ok \/ body.type # "dict"
            THEN [arn |-> None, log |-> <<Msg("Error in analysis", 0)>>]
            ELSE LET arn == dict_get(body.items, "executionArn", None)
                 IN IF Truthy(arn)
                    THEN [arn |-> arn, log |-> <<>>]
                    ELSE [arn |-> None, log |-> <<Msg("No execution ARN received", 0)>>]

\* trigger_analysis on the POST response: the job handle to poll, or None
\* with the messages shown
submit_outcome(post) ==
    IF post.exc # None
    THEN [arn |-> None, log |-> <<Msg("Error in analysis", 0)>>]
    ELSE IF post.status_code # 200
    THEN [arn |-> None, log |-> <<Msg("API Error", post.status_code), Msg("Response", 0)>>]
    ELSE LET body == json_loads(post.body)
         IN IF ~body.ok \/ body.type # "dict"
            THEN [arn |-> None, log |-> <<Msg("Error in analysis", 0)>>]
            ELSE LET arn == dict_get(body.items, "executionArn", None)
                 IN IF Truthy(arn)
                    THEN [arn |-> arn, log |-> <<>>]
                    ELSE [arn |-> None, log |-> <<Msg("No execution ARN received", 0)>>]

----------------------------------------------------------------------------
(* Two interleaved requests: data *)

Reqs == {"r1", "r2"}

Handles == {"arn:exec-1", "arn:exec-2"}

\* the submission endpoint starts one execution per POST and answers with
\* its handle
issued_body(r) == IF r = "r1" THEN BodyArn ELSE BodyArn2

\* the output each execution produces when it succeeds
job_output(h) == IF h = "arn:exec-1" THEN OutVisualOnly ELSE OutExtra

\* the payloads the two callers pass
ConcPayloads == {[present |-> TRUE, len |-> 4], [present |-> TRUE, len |-> 262001]}

\* what the POST of request r may be answered with
ConcPostResponses(r) ==
    {[exc |-> None, status_code |-> 200, body |-> issued_body(r)],
     [exc |-> None, status_code |-> 200, body |-> "{}"],
     [exc |-> None, status_code |-> 500, body |-> "<html>"]}

\* describe_execution(executionArn=h) on the remote state js
describe_execution(h, js) ==
    [exc |-> None,
     fields |-> IF js[h] = "SUCCEEDED"
                THEN ("status" :> "SUCCEEDED") @@ ("output" :> job_output(h))
                ELSE IF js[h] = "FAILED"
                THEN ("status" :> "FAILED") @@ ("error" :> "States.TaskFailed")
                ELSE ("status" :> "RUNNING")]

\* the handle a request hands to describe_execution when another call's
\* handle, kept in shared state, has overwritten its own
poll_handle_shared(r, rs) ==
    LET others == {q \in Reqs \ {r} : rs[q].execution_arn # None}
    IN IF others = {} THEN rs[r].execution_arn
       ELSE rs[CHOOSE q \in others : TRUE].execution_arn

\* the handle request r hands to describe_execution: the execution_arn
\* argument of its own poll_execution_status call
poll_handle(r, rs) == rs[r].execution_arn

\* the locals of a call that has not started
NoReq ==
    [pc |-> "idle", payload |-> NoPayload, postResp |-> NoPost,
     execution_arn |-> None, attempt |-> 0, queried |-> {},
     pollResult |-> NoPollRet, result |-> NoneResult]

----------------------------------------------------------------------------
(* The request thread *)

Init ==
    /\ pc = "idle"
    /\ file = NoFile
    /\ compressed = NoBuffer
    /\ trace = <<>>
    /\ viaMain = FALSE
    /\ payload = NoPayload
    /\ postResp = NoPost
    /\ execution_arn = None
    /\ attempt = 0
    /\ allRunning = TRUE
    /\ lastResp = NoResp
    /\ seen = None
    /\ pollResult = NoPollRet
    /\ result = NoneResult
    /\ nPost = 0
    /\ nQueries = 0
    /\ nDelays = 0
    /\ stLog = <<>>
    /\ reqs = [r \in Reqs |-> NoReq]
    /\ jobs = [h \in Handles |-> "NONE"]

\* main, lines 301-321: a file is uploaded and compress_image runs on it;
\* the Analyze button is offered only when a buffer came back
Upload ==
    /\ pc = "idle"
    /\ \E f \in Files, enc \in Encodings :
          LET c == compress_image(f, enc)
          IN /\ file' = f
             /\ compressed' = c.buf
             /\ trace' = c.trace
             /\ stLog' = c.log
             /\ pc' = IF c.buf.some THEN "ready" ELSE "done"
    /\ UNCHANGED <<viaMain, payload, postResp, execution_arn, attempt, allRunning,
                   lastResp, seen, pollResult, result, nPost, nQueries, nDelays>>
    /\ UNCHANGED conc_vars

\* main, lines 323-334: the button is pressed; the buffer is base64-encoded
\* and its length checked before trigger_analysis is called
ClickAnalyze ==
    /\ pc = "ready"
    /\ LET image_base64 == [present |-> TRUE, len |-> b64len(compressed.size)]
       IN IF image_base64.len = 0
          THEN /\ stLog' = Append(stLog, Msg("Failed to process the image", 0))
               /\ pc' = "done"
               /\ UNCHANGED <<viaMain, payload>>
          ELSE IF image_base64.len > WireCeiling
          THEN /\ stLog' = Append(stLog, Msg("Base64 encoded size exceeds limit",
                                             image_base64.len))
               /\ pc' = "done"
               /\ UNCHANGED <<viaMain, payload>>
          ELSE /\ payload' = image_base64
               /\ viaMain' = TRUE
               /\ pc' = "ta_entry"
               /\ UNCHANGED stLog
    /\ UNCHANGED <<file, compressed, trace, postResp, execution_arn, attempt, allRunning,
                   lastResp, seen, pollResult, result, nPost, nQueries, nDelays>>
    /\ UNCHANGED conc_vars

\* trigger_analysis called with any payload, as a caller other than main may
DirectCall ==
    /\ pc = "idle"
    /\ \E p \in Payloads : payload' = p
    /\ viaMain' = FALSE
    /\ pc' = "ta_entry"
    /\ UNCHANGED <<file, compressed, trace, postResp, execution_arn, attempt, allRunning,
                   lastResp, seen, pollResult, result, nPost, nQueries, nDelays, stLog>>
    /\ UNCHANGED conc_vars

\* trigger_analysis, lines 241-244: validate_input, return None when invalid
TA_Validate ==
    /\ pc = "ta_entry"
    /\ LET v == validate_input(payload)
       IN IF v.ok
          THEN /\ pc' = "ta_post"
               /\ UNCHANGED <<result, stLog>>
          ELSE /\ stLog' = Append(stLog, v.msg)
               /\ result' = NoneResult
               /\ pc' = "ta_returned"
    /\ UNCHANGED <<file, compressed, trace, viaMain, payload, postResp, execution_arn,
                   attempt, allRunning, lastResp, seen, pollResult,
                   nPost, nQueries, nDelays>>
    /\ UNCHANGED conc_vars

\* trigger_analysis, lines 246-269 and 284-294: the POST and what its
\* response leads to
TA_Post ==
    /\ pc = "ta_post"
    /\ nPost' = nPost + 1
    /\ \E post \in PostResponses :
          LET s == submit_outcome(post)
          IN /\ execution_arn' = s.arn
             /\ postResp' = post
             /\ stLog' = stLog \o s.log
             /\ IF s.arn # None
                THEN /\ pc' = "poll_start"
                     /\ UNCHANGED result
                ELSE /\ result' = NoneResult
                     /\ pc' = "ta_returned"
    /\ UNCHANGED <<file, compressed, trace, viaMain, payload, attempt,
                   allRunning, lastResp, seen, pollResult, nQueries, nDelays>>
    /\ UNCHANGED conc_vars

\* poll_execution_status, line 122: boto3.client; an exception here is
\* outside the function's try and reaches trigger_analysis's except branch
Poll_Start ==
    /\ pc = "poll_start"
    /\ \E client_ok \in BOOLEAN :
          IF client_ok
          THEN /\ pc' = "poll_query"
               /\ UNCHANGED <<result, stLog>>
          ELSE /\ result' = NoneResult
               /\ stLog' = Append(stLog, Msg("Error in analysis", 0))
               /\ pc' = "ta_returned"
    /\ attempt' = 0
    /\ allRunning' = TRUE
    /\ UNCHANGED <<file, compressed, trace, viaMain, payload, postResp, execution_arn,
                   lastResp, seen, pollResult, nPost, nQueries, nDelays>>
    /\ UNCHANGED conc_vars

\* poll_execution_status, lines 124-153 and 157-162: one describe_execution
\* call and the branch its answer takes
Poll_Query ==
    /\ pc = "poll_query"
    /\ attempt < max_attempts
    /\ nQueries' = nQueries + 1
    /\ \E resp \in StatusResponses :
          LET it == poll_iteration(resp)
          IN /\ stLog' = stLog \o it.log
             /\ seen' = IF resp.exc # None THEN "exception"
                        ELSE dict_get(resp.fields, "status", "no status")
             /\ IF it.done
                THEN /\ pollResult' = it.ret
                     /\ lastResp' = resp
                     /\ pc' = "poll_returned"
                     /\ UNCHANGED allRunning
                ELSE /\ allRunning' = (allRunning /\ resp.fields["status"] = "RUNNING")
                     /\ pc' = "poll_sleep"
                     /\ UNCHANGED <<pollResult, lastResp>>
    /\ UNCHANGED <<file, compressed, trace, viaMain, payload, postResp, execution_arn,
                   attempt, result, nPost, nDelays>>
    /\ UNCHANGED conc_vars

\* poll_execution_status, line 155: time.sleep(delay), then the next
\* iteration of the loop
Poll_Sleep ==
    /\ pc = "poll_sleep"
    /\ nDelays' = nDelays + 1
    /\ attempt' = attempt + 1
    /\ pc' = "poll_query"
    /\ UNCHANGED <<file, compressed, trace, viaMain, payload, postResp, execution_arn,
                   allRunning, lastResp, seen, pollResult, result, nPost, nQueries,
                   stLog>>
    /\ UNCHANGED conc_vars

\* poll_execution_status, lines 164-167: the loop ran out
Poll_Exhausted ==
    /\ pc = "poll_query"
    /\ attempt >= max_attempts
    /\ pollResult' = poll_exhausted
    /\ pc' = "poll_returned"
    /\ UNCHANGED <<file, compressed, trace, viaMain, payload, postResp, execution_arn,
                   attempt, allRunning, lastResp, seen, result, nPost, nQueries,
                   nDelays, stLog>>
    /\ UNCHANGED conc_vars

\* trigger_analysis, lines 273-283 and 292-294: the result is built from
\* what poll_execution_status returned
TA_Finish ==
    /\ pc = "poll_returned"
    /\ LET x == extract_result(pollResult)
       IN /\ result' = x.res
          /\ stLog' = stLog \o x.log
    /\ pc' = "ta_returned"
    /\ UNCHANGED <<file, compressed, trace, viaMain, payload, postResp, execution_arn,
                   attempt, allRunning, lastResp, seen, pollResult, nPost, nQueries,
                   nDelays>>
    /\ UNCHANGED conc_vars

\* the caller takes the result; main, lines 336-354, reports a None result
Return ==
    /\ pc = "ta_returned"
    /\ stLog' = IF viaMain /\ result.none
                THEN Append(stLog, Msg("Failed to process the analysis", 0))
                ELSE stLog
    /\ pc' = "done"
    /\ UNCHANGED <<file, compressed, trace, viaMain, payload, postResp, execution_arn,
                   attempt, allRunning, lastResp, seen, pollResult, result, nPost,
                   nQueries, nDelays>>
    /\ UNCHANGED conc_vars

\* the script is run again from the top for the next request
Rerun ==
    /\ pc = "done"
    /\ pc' = "idle"
    /\ file' = NoFile
    /\ compressed' = NoBuffer
    /\ trace' = <<>>
    /\ viaMain' = FALSE
    /\ payload' = NoPayload
    /\ postResp' = NoPost
    /\ execution_arn' = None
    /\ attempt' = 0
    /\ allRunning' = TRUE
    /\ lastResp' = NoResp
    /\ seen' = None
    /\ pollResult' = NoPollRet
    /\ result' = NoneResult
    /\ nPost' = 0
    /\ nQueries' = 0
    /\ nDelays' = 0
    /\ stLog' = <<>>
    /\ UNCHANGED conc_vars

Next ==
    \/ Upload
    \/ ClickAnalyze
    \/ DirectCall
    \/ TA_Validate
    \/ TA_Post
    \/ Poll_Start
    \/ Poll_Query
    \/ Poll_Sleep
    \/ Poll_Exhausted
    \/ TA_Finish
    \/ Return
    \/ Rerun

Spec == Init /\ [][Next]_vars

\* the steps of trigger_analysis and poll_execution_status: each is a
\* blocking call or a local computation of the request's one thread
RequestStep ==
    \/ TA_Validate
    \/ TA_Post
    \/ Poll_Start
    \/ Poll_Query
    \/ Poll_Sleep
    \/ Poll_Exhausted
    \/ TA_Finish

\* every remote call and every delay returns, so the thread keeps stepping
FairSpec == Spec /\ WF_vars(RequestStep)

----------------------------------------------------------------------------
(* Two interleaved requests: each runs trigger_analysis on its own locals *)

Set(r, new) == reqs' = [reqs EXCEPT ![r] = new]

\* trigger_analysis is called; validate_input, lines 241-244
C_Call(r) ==
    /\ reqs[r].pc = "idle"
    /\ \E p \in ConcPayloads :
          IF validate_input(p).ok
          THEN Set(r, [reqs[r] EXCEPT !.payload = p, !.pc = "ta_post"])
          ELSE Set(r, [reqs[r] EXCEPT !.payload = p, !.pc = "ta_returned"])
    /\ UNCHANGED <<jobs, seq_vars>>

\* the POST, lines 246-269 and 284-294; an answer with a handle means the
\* execution was started
C_Post(r) ==
    /\ reqs[r].pc = "ta_post"
    /\ \E post \in ConcPostResponses(r) :
          LET s == submit_outcome(post)
          IN IF s.arn # None
             THEN /\ Set(r, [reqs[r] EXCEPT !.postResp = post,
                                             !.execution_arn = s.arn,
                                             !.pc = "poll_query"])
                  /\ jobs' = [jobs EXCEPT ![s.arn] = "RUNNING"]
             ELSE /\ Set(r, [reqs[r] EXCEPT !.postResp = post,
                                             !.pc = "ta_returned"])
                  /\ UNCHANGED jobs
    /\ UNCHANGED seq_vars

\* one describe_execution call, lines 124-153
C_Query(r) ==
    /\ reqs[r].pc = "poll_query"
    /\ reqs[r].attempt < max_attempts
    /\ LET h == poll_handle(r, reqs)
           it == poll_iteration(describe_execution(h, jobs))
       IN IF it.done
          THEN Set(r, [reqs[r] EXCEPT !.queried = @ \cup {h},
                                      !.pollResult = it.ret,
                                      !.pc = "poll_returned"])
          ELSE Set(r, [reqs[r] EXCEPT !.queried = @ \cup {h},
                                      !.pc = "poll_sleep"])
    /\ UNCHANGED <<jobs, seq_vars>>

\* time.sleep(delay), line 155
C_Sleep(r) ==
    /\ reqs[r].pc = "poll_sleep"
    /\ Set(r, [reqs[r] EXCEPT !.attempt = @ + 1, !.pc = "poll_query"])
    /\ UNCHANGED <<jobs, seq_vars>>

\* the loop ran out, lines 164-167
C_Exhausted(r) ==
    /\ reqs[r].pc = "poll_query"
    /\ reqs[r].attempt >= max_attempts
    /\ Set(r, [reqs[r] EXCEPT !.pollResult = poll_exhausted,
                              !.pc = "poll_returned"])
    /\ UNCHANGED <<jobs, seq_vars>>

\* the result is built, lines 273-283
C_Finish(r) ==
    /\ reqs[r].pc = "poll_returned"
    /\ Set(r, [reqs[r] EXCEPT !.result = extract_result(reqs[r].pollResult).res,
                              !.pc = "ta_returned"])
    /\ UNCHANGED <<jobs, seq_vars>>

\* the remote workflow: a running execution succeeds or fails
JobStep(h) ==
    /\ jobs[h] = "RUNNING"
    /\ \E st \in {"SUCCEEDED", "FAILED"} : jobs' = [jobs EXCEPT ![h] = st]
    /\ UNCHANGED <<reqs, seq_vars>>

ConcNext ==
    \/ \E r \in Reqs : C_Call(r)
    \/ \E r \in Reqs : C_Post(r)
    \/ \E r \in Reqs : C_Query(r)
    \/ \E r \in Reqs : C_Sleep(r)
    \/ \E r \in Reqs : C_Exhausted(r)
    \/ \E r \in Reqs : C_Finish(r)
    \/ \E h \in Handles : JobStep(h)

ConcSpec == Init /\ [][ConcNext]_vars

----------------------------------------------------------------------------
(* Properties *)

\* trigger_analysis has returned (or its caller has moved on)
Returned == pc \in {"ta_returned", "done"}

\* poll_execution_status has returned
PollReturned == pollResult # NoPollRet

\* the most bytes a base64 text of n characters decodes to
b64decoded(n) == 3 * (n \div 4)

\* C1: whatever path compress_image takes, a buffer it returns is PNG and
\* at most 250,000 bytes; a grayscale encoding over 250,000 bytes is not
\* returned
C1_BufferWithinBudget ==
    compressed.some =>
        /\ compressed.format = "PNG"
        /\ compressed.size <= 250000

\* C2: a POST is issued only for a payload within both ceilings, and a
\* request whose payload is empty or over a ceiling ends with a None result
\* and no POST and no status query
C2_PostWithinCeilings ==
    /\ nPost > 0 =>
          /\ payload.present
          /\ payload.len > 0
          /\ payload.len <= 262000
          /\ b64decoded(payload.len) <= 250000
          /\ viaMain => /\ compressed.size <= 250000
                        /\ payload.len = b64len(compressed.size)
    /\ ( /\ pc \notin {"idle", "ready", "ta_entry"}
         /\ \/ ~payload.present
            \/ payload.len = 0
            \/ payload.len > 262000
            \/ b64decoded(payload.len) > 250000 )
       => /\ Returned
          /\ result.none
          /\ nPost = 0
          /\ nQueries = 0

\* C2 witness: main has posted a payload exactly at the wire ceiling
C2_Witness ==
    /\ nPost = 1
    /\ viaMain
    /\ payload.len = 262000

\* the status and the output text of the response that ended the poll
lastStatus == dict_get(lastResp.fields, "status", None)

lastOutput == json_loads(dict_get(lastResp.fields, "output", "{}"))

\* the three sub-documents of a parsed output, {} for a missing key
SubDocuments(items) == [k \in Keys |-> dict_get(items, k, EmptyDoc)]

\* C3: when k < 30 status queries answer RUNNING and the next answers
\* SUCCEEDED with parseable output, poll_execution_status returns SUCCEEDED
\* with the parsed output after k + 1 queries and k delays, and
\* trigger_analysis returns the three sub-documents of that output
C3_RunningThenSucceeded ==
    ( /\ PollReturned
      /\ allRunning
      /\ lastResp.exc = None
      /\ lastStatus = "SUCCEEDED"
      /\ lastOutput.ok )
    => /\ pollResult.status = "SUCCEEDED"
       /\ pollResult.output = lastOutput
       /\ nQueries = nDelays + 1
       /\ nDelays < 30
       /\ Returned =>
             /\ ~result.none
             /\ result.map = SubDocuments(lastOutput.items)

\* C4: a job that only ever answers RUNNING is queried exactly 30 times and
\* then reported as poll-exhausted with the fixed message; no job is
\* queried more than 30 times
C4_PollExhausted ==
    /\ nQueries <= 30
    /\ pollResult.status = "TIMEOUT" =>
          /\ nQueries = 30
          /\ pollResult.error = "Maximum polling attempts reached"
    /\ (allRunning /\ nQueries = 30 /\ pc \in {"poll_returned", "ta_returned", "done"}
        /\ lastResp = NoResp)
       => pollResult = PollRet("TIMEOUT", NoValue, "Maximum polling attempts reached")
    /\ (PollReturned /\ allRunning /\ lastResp = NoResp) => nQueries = 30

\* C4 witness: thirty RUNNING answers, then the poll-exhausted return
C4_Witness ==
    /\ pollResult.status = "TIMEOUT"
    /\ allRunning
    /\ nQueries = 30

\* C5: a SUCCEEDED answer whose output is not parseable JSON makes
\* poll_execution_status return ERROR with the parse-failure message, never
\* SUCCEEDED, and trigger_analysis return None
C5_UnparseableIsError ==
    ( /\ PollReturned
      /\ lastResp.exc = None
      /\ lastStatus = "SUCCEEDED"
      /\ ~lastOutput.ok )
    => /\ pollResult.status = "ERROR"
       /\ pollResult.error = "Invalid JSON output"
       /\ Returned => result.none

\* C5 witness: trigger_analysis has returned after a SUCCEEDED answer with
\* malformed output
C5_Witness ==
    /\ pc = "ta_returned"
    /\ lastStatus = "SUCCEEDED"
    /\ "output" \in DOMAIN lastResp.fields
    /\ lastResp.fields["output"] = "{not json"

\* the POST was answered, and not by HTTP 200 with a job handle
NoHandle ==
    /\ nPost = 1
    /\ postResp.exc = None
    /\ \/ postResp.status_code # 200
       \/ postResp.body \notin {BodyArn}

\* C6: a submission answered by a status other than 200, or by 200 without
\* an executionArn, ends trigger_analysis with None and polling is never
\* entered: no status query and no delay
C6_NoHandleNoPolling ==
    NoHandle =>
        /\ Returned
        /\ result.none
        /\ execution_arn = None
        /\ ~PollReturned
        /\ nQueries = 0
        /\ nDelays = 0

\* C6 witness: HTTP 200 with a body that has no executionArn
C6_Witness ==
    /\ nPost = 1
    /\ postResp.exc = None
    /\ postResp.status_code = 200
    /\ postResp.body = "{}"
    /\ pc = "ta_returned"

\* C7: trigger_analysis returns None or a mapping with exactly the three
\* keys; after SUCCEEDED the mapping holds, per key, the parsed output's
\* value or {} when the key is missing; after any other outcome it is None
C7_ResultShape ==
    Returned =>
        /\ result.none \/ DOMAIN result.map = Keys
        /\ pollResult.status = "SUCCEEDED" =>
              /\ ~result.none
              /\ result.map = SubDocuments(pollResult.output.items)
        /\ pollResult.status # "SUCCEEDED" => result.none

\* validate_input has rejected the payload: trigger_analysis returned
\* before any POST
Rejected == pc = "ta_returned" /\ nPost = 0

\* C8: validate_input rejects the absent and the empty payload, rejects a
\* payload longer than 262,000 with a message carrying its length, and
\* accepts every other payload (262,000 passes, 262,001 fails)
C8_ValidateInput ==
    /\ pc = "ta_post" =>
          /\ payload.present
          /\ payload.len > 0
          /\ payload.len <= 262000
    /\ Rejected =>
          /\ Len(stLog) > 0
          /\ IF ~payload.present \/ payload.len = 0
             THEN stLog[Len(stLog)] = Msg("No image data provided", 0)
             ELSE /\ payload.len > 262000
                  /\ stLog[Len(stLog)] = Msg("Image too large", payload.len)

\* C8 witness: a payload of 262,001 characters has been rejected
C8_Witness ==
    /\ Rejected
    /\ payload.present
    /\ payload.len = 262001

\* compress_image has run on an upload
Compressed == file # NoFile

\* C9: a PNG upload of at most 250,000 bytes is returned byte-identical
\* with no later stage run; any other upload does not take the fast path
C9_FastPath ==
    Compressed =>
        IF file.decodable /\ file.format = "PNG" /\ file.size <= 250000
        THEN /\ compressed = Buffer("PNG", file.size, "original")
             /\ trace = <<Op("open", 0, file.size)>>
        ELSE compressed.src # "original"

\* C9 witness: a PNG upload exactly at the budget came back unchanged
C9_Witness ==
    /\ pc = "ready"
    /\ file.format = "PNG"
    /\ file.size = 250000
    /\ compressed.src = "original"

IsCapSave(e) == e.op = "save_png" /\ e.cap \notin {0, 500}

IsFirstSave(e) == e.op = "save_png" /\ e.cap = 500

IsGrayscale(e) == e.op = "convert_L"

\* the encodings made by the aggressive stage, in the order made
capSaves == SelectSeq(trace, IsCapSave)

firstSaves == SelectSeq(trace, IsFirstSave)

grayscales == Len(SelectSeq(trace, IsGrayscale))

\* C10: the aggressive stage runs only when the resize-to-500 encoding is
\* over 250,000 bytes; it tries 400, 300, 200 in that order, returns the
\* first encoding within the budget and tries no cap after it; grayscale
\* runs only when all three caps are over the budget, and then once
C10_Degradation ==
    (Compressed /\ Len(firstSaves) = 1) =>
        LET n == Len(capSaves)
            over(e) == e.size > 250000
        IN /\ n <= 3
           /\ \A i \in 1..n : capSaves[i].cap = <<400, 300, 200>>[i]
           /\ \A i \in 1..(n - 1) : over(capSaves[i])
           /\ IF over(firstSaves[1])
              THEN /\ n >= 1
                   /\ n < 3 => ~over(capSaves[n])
                   /\ ~over(capSaves[n]) =>
                         /\ compressed = Buffer("PNG", capSaves[n].size, "aggressive")
                         /\ grayscales = 0
                   /\ over(capSaves[n]) =>
                         /\ grayscales = 1
                         /\ compressed.src = "grayscale"
              ELSE /\ n = 0
                   /\ grayscales = 0
                   /\ compressed = Buffer("PNG", firstSaves[1].size, "resize500")

\* C10 witness: cap 400 was over the budget and the cap-300 encoding was
\* returned
C10_Witness ==
    /\ Compressed
    /\ Len(capSaves) = 2
    /\ compressed.src = "aggressive"
    /\ compressed.size = capSaves[2].size

\* C11: a FAILED, TIMED_OUT or ABORTED answer is returned with exactly that
\* status and with the answer's error field, or 'Unknown error' when the
\* field is absent; it is never reported as ERROR or SUCCEEDED
C11_RemoteFailure ==
    ( /\ PollReturned
      /\ lastResp.exc = None
      /\ lastStatus \in {"FAILED", "TIMED_OUT", "ABORTED"} )
    => /\ pollResult.status = lastStatus
       /\ pollResult.status \notin {"ERROR", "SUCCEEDED"}
       /\ pollResult.error = IF "error" \in DOMAIN lastResp.fields
                             THEN lastResp.fields["error"]
                             ELSE "Unknown error"

\* C11 witness: a TIMED_OUT answer without an error field has been returned
C11_Witness ==
    /\ PollReturned
    /\ lastStatus = "TIMED_OUT"
    /\ "error" \notin DOMAIN lastResp.fields
    /\ pollResult.error = "Unknown error"

\* the poll was ended by describe_execution raising
RaisedWhilePolling == lastResp.exc \notin {None, NoResp.exc}

\* C12: when the i-th status query raises, poll_execution_status returns
\* ERROR with the exception's text at once: i queries were made, i - 1
\* delays, none after the failing query, and no further attempt is used
C12_ExceptionEndsPoll ==
    RaisedWhilePolling =>
        /\ PollReturned
        /\ pollResult.status = "ERROR"
        /\ pollResult.error = lastResp.exc
        /\ nQueries = attempt + 1
        /\ nQueries <= 30
        /\ nDelays = nQueries - 1

\* C12 witness: the third status query raised, after two RUNNING answers
C12_Witness ==
    /\ RaisedWhilePolling
    /\ allRunning
    /\ nQueries = 3
    /\ nDelays = 2
    /\ pc = "poll_returned"

\* a terminal outcome of the current request has been observed: a status
\* query answered with a terminal status or raised, the poll returned, or
\* trigger_analysis returned
TerminalObserved ==
    /\ pc # "done"
    /\ \/ seen \in {"SUCCEEDED", "FAILED", "TIMED_OUT", "ABORTED",
                    "exception", "no status"}
       \/ PollReturned
       \/ pc = "ta_returned"

\* C13: a request issues at most one POST; a status query is repeated only
\* after an answer that was not terminal, each repetition after one delay;
\* once a terminal outcome has been observed the request issues no further
\* POST, status query or delay
C13_NoRetry ==
    /\ [](nPost <= 1)
    /\ [](nQueries >= 2 => nDelays >= nQueries - 1)
    /\ [][TerminalObserved =>
            /\ nPost' = nPost
            /\ nQueries' = nQueries
            /\ nDelays' = nDelays]_vars

\* C13 witness: the second status query answered FAILED and the poll returned
C13_Witness ==
    /\ pc = "poll_returned"
    /\ seen = "FAILED"
    /\ nPost = 1
    /\ nQueries = 2
    /\ nDelays = 1

\* trigger_analysis has been called and has not returned
InFlight ==
    pc \in {"ta_entry", "ta_post", "poll_start", "poll_query", "poll_sleep",
            "poll_returned"}

\* C14: when every remote call and every delay returns, a run of
\* trigger_analysis always reaches its return, after at most one POST, 30
\* status queries and 30 delays, and with one outcome: a mapping after
\* SUCCEEDED or None
C14_Terminates ==
    /\ InFlight ~> (pc = "ta_returned")
    /\ [](nPost <= 1 /\ nQueries <= 30 /\ nDelays <= 30)
    /\ [](pc = "ta_returned" =>
            (result.none \/ pollResult.status = "SUCCEEDED"))

\* C14 witness: trigger_analysis returned after the whole budget of 30
\* queries and 30 delays was used
C14_Witness ==
    /\ pc = "ta_returned"
    /\ nPost = 1
    /\ nQueries = 30
    /\ nDelays = 30

\* the messages shown so far include this text
Shown(text) == \E i \in 1..Len(stLog) : stLog[i].text = text

\* C15: every buffer of at most 250,000 bytes that compress_image returns
\* has a base64 text within the 262,000 ceiling, so main's length check and
\* validate_input never reject an image the normaliser accepted
C15_DeliveryGuaranteed ==
    (compressed.some /\ compressed.size <= 250000) =>
        /\ b64len(compressed.size) <= 262000
        /\ ~Shown("Base64 encoded size exceeds limit")
        /\ ~Shown("Image too large")

own_handle(r) == json_loads(issued_body(r)).items["executionArn"]

\* what request r returns, from its own payload, its own POST answer and
\* the state of its own execution alone
own_result(r) ==
    LET q == reqs[r]
    IN IF ~validate_input(q.payload).ok \/ submit_outcome(q.postResp).arn = None
       THEN NoneResult
       ELSE IF q.pollResult.status = "SUCCEEDED"
       THEN [none |-> FALSE,
             map |-> SubDocuments(json_loads(job_output(own_handle(r))).items)]
       ELSE NoneResult

\* C17: with two requests interleaved, every status query of a request
\* uses the handle returned to that request, the status it ends with is
\* that of its own execution, its result is determined by its own payload,
\* POST answer and execution, and no step of one request changes the state
\* of the other
C17_Independent ==
    /\ [](\A r \in Reqs :
            /\ reqs[r].execution_arn \in {None, own_handle(r)}
            /\ reqs[r].queried \subseteq {own_handle(r)}
            /\ reqs[r].pollResult.status \in {"SUCCEEDED", "FAILED"} =>
                  jobs[own_handle(r)] = reqs[r].pollResult.status
            /\ reqs[r].pc = "ta_returned" => reqs[r].result = own_result(r))
    /\ [][\A r, q \in Reqs :
            (r # q /\ reqs'[r] # reqs[r]) => reqs'[q] = reqs[q]]_vars

\* C17 witness: both requests polled while the other was polling, and
\* each returned the sub-documents of its own execution
C17_Witness ==
    /\ \A r \in Reqs : /\ reqs[r].pc = "ta_returned"
                       /\ reqs[r].attempt = 1
                       /\ ~reqs[r].result.none
    /\ reqs["r1"].result.map["visual_analysis"] # EmptyDoc
    /\ reqs["r2"].result.map["activity_pattern"] # EmptyDoc
    /\ reqs["r1"].result # reqs["r2"].result

====
